---- MODULE Spec2Model ----
(***************************************************************************)
(* A model of adobo's preprocessing (src/adobo/preproc.py) and             *)
(* dimensional reduction (src/adobo/dr.py) operations on a dataset object. *)
(*                                                                         *)
(* A data frame is a record [index, columns, values]: index is the set of  *)
(* row labels, columns the set of column labels, values a function on      *)
(* index \X columns.  Gene identifiers are sequences of characters, so     *)
(* that the regular expressions of detect_mito and detect_ERCC_spikes are  *)
(* matched character by character.                                         *)
(***************************************************************************)
EXTENDS Integers, Sequences, FiniteSets, TLC

VARIABLES exp_mat, exp_mito, exp_ERCC, low_quality_cells, norm_data, assays, last,
          loaded

vars == <<exp_mat, exp_mito, exp_ERCC, low_quality_cells, norm_data, assays, last,
          loaded>>

---------------------------------------------------------------------------
(* Bounds of the model *)

MaxCells == 2
MaxReads == 1
MaxMinExp == 1
MaxNcomp == 2

(* Default arguments of the program *)

DefaultMinReads == 1000
DefaultMinExpDen == 1000
DefaultNcomp == 75
DefaultPerplexity == 30
DefaultNIter == 2000
DefaultSdThres == 3
DefaultSeed == 42

---------------------------------------------------------------------------
(* Identifiers *)

mtCo1 == <<"m", "t", "-", "C", "o", "1">>
ERCC1 == <<"E", "R", "C", "C", "-", "1">>
Actb == <<"A", "c", "t", "b">>

GeneIds == {mtCo1, ERCC1, Actb}

CellIds == 1..MaxCells

(* An entry of the count matrix: not expressed (0) or expressed (1) *)
Counts == {0, 1}

UpperCase == <<"A", "B", "C", "D", "E", "F", "G", "H", "I", "J", "K", "L", "M",
               "N", "O", "P", "Q", "R", "S", "T", "U", "V", "W", "X", "Y", "Z">>

LowerCase == <<"a", "b", "c", "d", "e", "f", "g", "h", "i", "j", "k", "l", "m",
               "n", "o", "p", "q", "r", "s", "t", "u", "v", "w", "x", "y", "z">>

Lower(ch) ==
    IF \E i \in 1..Len(UpperCase) : UpperCase[i] = ch
    THEN LowerCase[CHOOSE i \in 1..Len(UpperCase) : UpperCase[i] = ch]
    ELSE ch

WhiteSpace == {" "}

(* A pattern ^c1c2...cn, followed by \S+$ when tail is TRUE: chars[i] is    *)
(* the set of characters allowed at position i.                             *)
MitoPattern == [chars |-> <<{"m"}, {"t"}, {"-"}>>, tail |-> FALSE]

ERCCPattern == [chars |-> <<{"E"}, {"R"}, {"C"}, {"C"}, {"_", "-"}>>, tail |-> TRUE]

RiboPattern == [chars |-> <<{"R"}, {"p"}, {"l"}>>, tail |-> FALSE]

Patterns == {MitoPattern, ERCCPattern, RiboPattern}

(* re.search of an anchored pattern in the identifier s *)
Contains(pat, s, ignorecase) ==
    LET n == Len(pat.chars)
        same(a, b) == IF ignorecase THEN Lower(a) = Lower(b) ELSE a = b
    IN  /\ Len(s) >= n
        /\ \A i \in 1..n : \E a \in pat.chars[i] : same(a, s[i])
        /\ pat.tail => /\ Len(s) > n
                       /\ \A i \in (n + 1)..Len(s) : s[i] \notin WhiteSpace

---------------------------------------------------------------------------
(* Data frames *)

None == <<>>

Some(m) == <<m>>

Frame(idx, cols, vals) == [index |-> idx, columns |-> cols, values |-> vals]

EmptyFrame == Frame({}, {}, [p \in {} |-> 0])

(* the gene and cell identifiers of a frame *)
Labels(m) == [index |-> m.index, columns |-> m.columns]

(* Selection of rows and columns by label *)
Sub(m, rows, cols) ==
    Frame(rows, cols, [p \in rows \X cols |-> m.values[p]])

RECURSIVE SumOver(_, _)
SumOver(f, S) ==
    IF S = {} THEN 0
    ELSE LET x == CHOOSE y \in S : TRUE
         IN  f[x] + SumOver(f, S \ {x})

(* m.sum(axis=0): per column, the sum over the rows *)
SumAxis0(m) ==
    [c \in m.columns |-> SumOver([g \in m.index |-> m.values[<<g, c>>]], m.index)]

(* m.sum(axis=1): per row, the sum over the columns *)
SumAxis1(m) ==
    [g \in m.index |-> SumOver([c \in m.columns |-> m.values[<<g, c>>]], m.columns)]

(* m == 0, as a frame of 0/1 *)
IsZero(m) ==
    Frame(m.index, m.columns,
          [p \in m.index \X m.columns |-> IF m.values[p] = 0 THEN 1 ELSE 0])

(* m > 0, as a frame of 0/1 *)
IsPositive(m) ==
    Frame(m.index, m.columns,
          [p \in m.index \X m.columns |-> IF m.values[p] > 0 THEN 1 ELSE 0])

---------------------------------------------------------------------------
(* The outcome of the last call: the operation, the exception raised        *)
(* ("none" when it returned) and, for the preprocessing operations, the     *)
(* arguments.                                                               *)

Call(op, args, err) == [op |-> op, args |-> args, err |-> err]

NoArgs == [none |-> TRUE]

(* minexpgenes as given: a Python int, or a float num/den *)
IntArg(n) == [type |-> "int", num |-> n, den |-> 1]

FloatArg(n, d) == [type |-> "float", num |-> n, den |-> d]

MinReadsArgs == (0..MaxReads) \cup {DefaultMinReads}

MinExpArgs ==
    {IntArg(n) : n \in 0..MaxMinExp}
        \cup {FloatArg(1, DefaultMinExpDen), FloatArg(1, 2)}

---------------------------------------------------------------------------
(* preproc.simple_filter *)

KeepCellAbove(count, minreads) == count > minreads

KeepGeneAtLeast(expressed, minexpgenes) == expressed >= minexpgenes

KeepGeneAbove(expressed, minexpgenes) == expressed > minexpgenes

GeneFilterEnabled(minexpgenes) == minexpgenes.num > 0

(* the cells kept by the read filter *)
CellsKept(m, minreads) ==
    {c \in m.columns : KeepCellAbove(SumAxis0(m)[c], minreads)}

(* the number of cells expressing each gene *)
GenesExpressed(m) == SumAxis1(IsPositive(m))

(* the result of the gene filter on the frame m left by the read filter *)
GeneFiltered(m, minexpgenes) ==
    IF minexpgenes.type = "int"
    THEN Sub(m, {g \in m.index : KeepGeneAbove(GenesExpressed(m)[g], minexpgenes.num)},
             m.columns)
    ELSE Sub(m, {g \in m.index :
                    GenesExpressed(m)[g] * minexpgenes.den
                        > minexpgenes.num * Cardinality(m.columns)},
             m.columns)

simple_filter(minreads, minexpgenes) ==
    LET m1 == Sub(exp_mat, exp_mat.index, CellsKept(exp_mat, minreads))
        args == [minreads |-> minreads, minexpgenes |-> minexpgenes]
    IN  /\ IF ~GeneFilterEnabled(minexpgenes)
           THEN /\ exp_mat' = m1
                /\ last' = Call("simple_filter", args, "none")
           ELSE IF minexpgenes.type = "float" /\ m1.columns = {}
           THEN \* apply() on a frame without columns does not reduce when the
                \* function raises (0/0): formatting the count then raises, or
                \* (newer pandas) the empty mask selects every row.
                \/ /\ exp_mat' = exp_mat
                   /\ last' = Call("simple_filter", args, "TypeError")
                \/ /\ exp_mat' = m1
                   /\ last' = Call("simple_filter", args, "none")
           ELSE /\ exp_mat' = GeneFiltered(m1, minexpgenes)
                /\ last' = Call("simple_filter", args, "none")
        /\ UNCHANGED <<exp_mito, exp_ERCC, low_quality_cells, loaded, norm_data,
                       assays>>

---------------------------------------------------------------------------
(* preproc.remove_empty *)

(* the dimension the per-cell count of zeros is compared with *)
CellsTotal(m) == Cardinality(m.columns)

(* the dimension the per-gene count of zeros is compared with *)
GenesTotal(m) == Cardinality(m.index)

RemoveEmpty(m) ==
    LET data_zero == IsZero(m)
        cells == SumAxis0(data_zero)
        genes == SumAxis1(data_zero)
        total_genes == GenesTotal(m)
        total_cells == CellsTotal(m)
        m1 == IF \E c \in m.columns : cells[c] = total_cells
              THEN Sub(m, m.index, {c \in m.columns : cells[c] # total_cells})
              ELSE m
    IN  IF \E g \in m.index : genes[g] = total_genes
        THEN Sub(m1, {g \in m.index : genes[g] # total_genes}, m1.columns)
        ELSE m1

(* remove_empty handing back a frame re-indexed to the genes and cells of  *)
(* the matrix as loaded, the dropped ones filled with 0                    *)
remove_emptyReindexed ==
    /\ exp_mat' = LET m == RemoveEmpty(exp_mat)
                  IN  Frame(loaded.index, loaded.columns,
                            [p \in loaded.index \X loaded.columns |->
                                IF p \in DOMAIN m.values THEN m.values[p] ELSE 0])
    /\ last' = Call("remove_empty", NoArgs, "none")
    /\ UNCHANGED <<exp_mito, exp_ERCC, low_quality_cells, loaded, norm_data,
                   assays>>

remove_empty ==
    /\ exp_mat' = RemoveEmpty(exp_mat)
    /\ last' = Call("remove_empty", NoArgs, "none")
    /\ UNCHANGED <<exp_mito, exp_ERCC, low_quality_cells, loaded, norm_data,
                   assays>>

---------------------------------------------------------------------------
(* preproc.detect_mito and preproc.detect_ERCC_spikes *)

MitoGenes(m, pat) == {g \in m.index : Contains(pat, g, TRUE)}

detect_mito(mito_pattern) ==
    LET mt == MitoGenes(exp_mat, mito_pattern)
    IN  /\ IF mt # {}
           THEN /\ exp_mito' = Some(Sub(exp_mat, mt, exp_mat.columns))
                /\ exp_mat' = Sub(exp_mat, exp_mat.index \ mt, exp_mat.columns)
           ELSE UNCHANGED <<exp_mat, exp_mito>>
        /\ last' = Call("detect_mito", [pattern |-> mito_pattern], "none")
        /\ UNCHANGED <<exp_ERCC, low_quality_cells, loaded, norm_data, assays>>

ERCCGenes(m, pat) == {g \in m.index : Contains(pat, g, FALSE)}

(* what detect_ERCC_spikes leaves in obj.exp_ERCC, given the extracted frame *)
StoredERCC(old, extracted) == old

(* detect_ERCC_spikes without the negation of the mask: the matrix kept is *)
(* the matching rows                                                       *)
detect_ERCC_spikesKeepsMatches(ERCC_pattern) ==
    LET s == ERCCGenes(exp_mat, ERCC_pattern)
        extracted == Sub(exp_mat, s, exp_mat.columns)
    IN  /\ exp_mat' = extracted
        /\ exp_ERCC' = StoredERCC(exp_ERCC, extracted)
        /\ last' = Call("detect_ERCC_spikes", [pattern |-> ERCC_pattern], "none")
        /\ UNCHANGED <<exp_mito, low_quality_cells, loaded, norm_data, assays>>

detect_ERCC_spikes(ERCC_pattern) ==
    LET s == ERCCGenes(exp_mat, ERCC_pattern)
        extracted == Sub(exp_mat, s, exp_mat.columns)
    IN  /\ exp_mat' = Sub(exp_mat, exp_mat.index \ s, exp_mat.columns)
        /\ exp_ERCC' = StoredERCC(exp_ERCC, extracted)
        /\ last' = Call("detect_ERCC_spikes", [pattern |-> ERCC_pattern], "none")
        /\ UNCHANGED <<exp_mito, low_quality_cells, loaded, norm_data, assays>>

---------------------------------------------------------------------------
(* preproc.auto_clean *)

(* type(x) == None: the type of an object is a class, never None *)
TypeIsNone(x) == FALSE

RRNAArgs == {{}, {Actb}}

(* The call runs its statements in order until one raises: the outcome is   *)
(* the exception and the quality metrics computed before it.                *)
AutoCleanOutcome(data, data_mt, data_ERCC) ==
    IF TypeIsNone(data_ERCC)
    THEN [err |-> "Exception: auto_clean() needs ERCC spikes", metrics |-> {}]
    ELSE IF TypeIsNone(data_mt)
    THEN [err |-> "Exception: No mitochondrial genes found. Run detect_mito() first.",
          metrics |-> {}]
    ELSE IF data_mt = None
    THEN \* None has no attribute sum
         [err |-> "AttributeError",
          metrics |-> {"reads_per_cell", "no_genes_det", "perc_rRNA"}]
    ELSE IF data_ERCC = None
    THEN [err |-> "AttributeError",
          metrics |-> {"reads_per_cell", "no_genes_det", "perc_rRNA", "perc_mt"}]
    ELSE \* the module imports neither pandas (pd) nor MinCovDet
         [err |-> "NameError",
          metrics |-> {"reads_per_cell", "no_genes_det", "perc_rRNA", "perc_mt",
                       "perc_ERCC"}]

auto_clean(rRNA_genes, sd_thres, seed) ==
    LET out == AutoCleanOutcome(exp_mat, exp_mito, exp_ERCC)
    IN  /\ last' = [op |-> "auto_clean",
                    args |-> [rRNA_genes |-> rRNA_genes, sd_thres |-> sd_thres,
                              seed |-> seed],
                    err |-> out.err,
                    metrics |-> out.metrics]
        /\ UNCHANGED <<exp_mat, exp_mito, exp_ERCC, low_quality_cells, loaded, norm_data,
                       assays>>

---------------------------------------------------------------------------
(* Real numbers of the reduction stage.  A value is sgn * sqrt(num / den),  *)
(* kept in lowest terms, which is exact for the counts and for their        *)
(* standardization.                                                         *)

Sign(x) == IF x > 0 THEN 1 ELSE IF x < 0 THEN -1 ELSE 0

RECURSIVE GCD(_, _)
GCD(a, b) == IF b = 0 THEN a ELSE GCD(b, a % b)

Real(sgn, num, den) ==
    IF num = 0
    THEN [sgn |-> 0, num |-> 0, den |-> 1]
    ELSE [sgn |-> sgn, num |-> num \div GCD(num, den), den |-> den \div GCD(num, den)]

AsReal(x) == Real(Sign(x), x * x, 1)

(* the values of a frame of numbers, as reals *)
ToReal(m) ==
    Frame(m.index, m.columns, [p \in m.index \X m.columns |-> AsReal(m.values[p])])

Min(a, b) == IF a < b THEN a ELSE b

(* pandas' default labels of n rows or columns *)
RangeIndex(n) == 0..(n - 1)

(* the position of label c among the labels cols *)
Position(cols, c) == Cardinality({d \in cols : d < c})

(* sklearn_scale(data.transpose(), axis=0, with_mean=True, with_std=True),  *)
(* transposed back into a frame with data's index: each gene is centred on  *)
(* its mean over the cells and divided by its standard deviation (by 1 when *)
(* that is zero).  The columns of the new frame carry default labels.       *)
Standardize(data) ==
    LET n == Cardinality(data.columns)
        S == SumAxis1(data)
        dev(g, c) == n * data.values[<<g, c>>] - S[g]
        Q(g) == SumOver([c \in data.columns |-> dev(g, c) * dev(g, c)], data.columns)
        z(g, c) == IF Q(g) = 0 THEN Real(0, 0, 1)
                   ELSE Real(Sign(dev(g, c)), n * dev(g, c) * dev(g, c), Q(g))
        at(j) == CHOOSE c \in data.columns : Position(data.columns, c) = j
    IN  Frame(data.index, RangeIndex(n),
              [p \in data.index \X RangeIndex(n) |-> z(p[1], at(p[2]))])

---------------------------------------------------------------------------
(* The dataset's normalizations: norm_data is a dict, in insertion order,   *)
(* from the name of a normalization to its record; dr is the dict of the    *)
(* reductions computed on it.                                               *)

NormNames == {"standard", "rpkm"}

NoName == "<None>"

NameArgs == {NoName, ""} \cup NormNames

MethodArgs == {"irlb", "svd", "eig"}

NcompArgs == (1..MaxNcomp) \cup {DefaultNcomp}

Keys(nd) == [i \in 1..Len(nd) |-> nd[i].name]

HasKey(nd, k) == \E i \in 1..Len(nd) : nd[i].name = k

Item(nd, k) == nd[CHOOSE i \in 1..Len(nd) : nd[i].name = k]

(* d[k] = v on a dict d *)
Put(d, k, v) == [x \in DOMAIN d \cup {k} |-> IF x = k THEN v ELSE d[x]]

(* obj.norm_data[k]['dr'][slot] = v *)
PutDr(nd, k, slot, v) ==
    [i \in 1..Len(nd) |->
        IF nd[i].name = k THEN [nd[i] EXCEPT !.dr = Put(nd[i].dr, slot, v)] ELSE nd[i]]

(* the highly variable genes of a normalization: one gene, or every gene *)
HvgChoices(idx) == {{Actb} \cap idx, idx} \ {{}}

(* A normalization of the count matrix stored under a name *)
norm(name, hvg) ==
    /\ ~HasKey(norm_data, name)
    /\ exp_mat.index # {}
    /\ exp_mat.columns # {}
    /\ norm_data' = Append(norm_data,
                           [name |-> name, data |-> exp_mat, hvg |-> hvg, dr |-> <<>>])
    /\ last' = Call("norm", NoArgs, "none")
    /\ UNCHANGED <<exp_mat, exp_mito, exp_ERCC, low_quality_cells, loaded, assays>>

(* obj.set_assay(name, key) *)
SetAssay(a, name, key) == Put(a, name, key)

DefaultKey == "1"

---------------------------------------------------------------------------
(* dr.irlb and dr.svd: a result matrix is described by its row labels, its  *)
(* number of columns and the decomposition it comes from.                   *)

Matrix(idx, ncol, fn, inp, ncomp) ==
    [index |-> idx, ncol |-> ncol, of |-> [fn |-> fn, input |-> inp, ncomp |-> ncomp]]

(* irlbpy.lanczos(inp, nval=ncomp, maxit=1000, seed=seed) raises when more  *)
(* singular triplets are requested than the matrix has.                     *)
LanczosFails(inp, nval) ==
    nval > Min(Cardinality(inp.index), Cardinality(inp.columns))

irlb(data_norm, ncomp) ==
    IF LanczosFails(data_norm, ncomp)
    THEN [err |-> "lanczos"]
    ELSE [err |-> "none",
          comp |-> Matrix(RangeIndex(Cardinality(data_norm.columns)), ncomp,
                          "dot(V, diag(s))", data_norm, ncomp),
          contr |-> Matrix(data_norm.index, ncomp, "abs(U)", data_norm, ncomp)]

(* the number of columns of x.iloc[:, 0:ncomp] for a frame of width columns *)
SliceWidth(width, ncomp) == Min(width, ncomp)

svd(data_norm, ncomp) ==
    LET n_genes == Cardinality(data_norm.index)
    IN  [err |-> "none",
         comp |-> Matrix(data_norm.columns, SliceWidth(n_genes, ncomp),
                         "inp.dot(v)", data_norm, ncomp),
         contr |-> Matrix(data_norm.index, SliceWidth(n_genes, ncomp),
                          "abs(v)", data_norm, ncomp)]

---------------------------------------------------------------------------
(* dr.pca *)

NoNormalizationUnchecked(nd) == FALSE

NoNormalization(nd) == Len(nd) = 0

TargetsAlwaysAll(nd, name) == [err |-> "none", keys |-> Keys(nd)]

(* the names the call operates on, or a KeyError *)
Targets(nd, name) ==
    IF name = NoName \/ name = ""
    THEN [err |-> "none", keys |-> Keys(nd)]
    ELSE IF HasKey(nd, name)
    THEN [err |-> "none", keys |-> <<name>>]
    ELSE [err |-> "KeyError", keys |-> <<>>]

(* the genes of the normalization the reduction runs on *)
PcaData(item, allgenes) ==
    IF allgenes THEN item.data
    ELSE Sub(item.data, item.data.index \cap item.hvg, item.data.columns)

(* the matrix passed to irlb or svd *)
StrategyInput(data, scale) == ToReal(data)

PcaOfItemElseSvd(item, method, ncomp, allgenes, scale) ==
    LET data == PcaData(item, allgenes)
        inp == StrategyInput(data, scale)
    IN  IF method = "irlb" THEN irlb(inp, ncomp) ELSE svd(inp, ncomp)

PcaOfItem(item, method, ncomp, allgenes, scale) ==
    LET data == PcaData(item, allgenes)
        inp == StrategyInput(data, scale)
    IN  IF method = "irlb" THEN irlb(inp, ncomp)
        ELSE IF method = "svd" THEN svd(inp, ncomp)
        ELSE [err |-> "Exception: Unkown PCA method spefified"]

(* the loop over the targets, from target i on; st = [nd, assays, err] *)
(* pca recording the step without its method, as tsne and umap do *)
RECURSIVE PcaLoopStepOnly(_, _, _, _, _, _, _)
PcaLoopStepOnly(st, keys, i, method, ncomp, allgenes, scale) ==
    IF i > Len(keys) THEN st
    ELSE LET k == keys[i]
             r == PcaOfItem(Item(st.nd, k), method, ncomp, allgenes, scale)
         IN  IF r.err # "none" THEN [st EXCEPT !.err = r.err]
             ELSE PcaLoopStepOnly([nd |-> PutDr(st.nd, k, "pca",
                                                [comp |-> r.comp, contr |-> r.contr,
                                                 method |-> method]),
                                   assays |-> SetAssay(st.assays, "pca", DefaultKey),
                                   err |-> "none"],
                                  keys, i + 1, method, ncomp, allgenes, scale)

RECURSIVE PcaLoop(_, _, _, _, _, _, _)
PcaLoop(st, keys, i, method, ncomp, allgenes, scale) ==
    IF i > Len(keys) THEN st
    ELSE LET k == keys[i]
             r == PcaOfItem(Item(st.nd, k), method, ncomp, allgenes, scale)
         IN  IF r.err # "none" THEN [st EXCEPT !.err = r.err]
             ELSE PcaLoop([nd |-> PutDr(st.nd, k, "pca",
                                        [comp |-> r.comp, contr |-> r.contr,
                                         method |-> method]),
                           assays |-> SetAssay(st.assays, "pca", method),
                           err |-> "none"],
                          keys, i + 1, method, ncomp, allgenes, scale)

Pca(nd, a, method, name, ncomp, allgenes, scale) ==
    LET t == Targets(nd, name)
        st0 == [nd |-> nd, assays |-> a, err |-> "none"]
    IN  IF NoNormalization(nd)
        THEN [st0 EXCEPT !.err = "Exception: Run normalization first before running pca"]
        ELSE IF t.err # "none" THEN [st0 EXCEPT !.err = t.err]
        ELSE PcaLoop(st0, t.keys, 1, method, ncomp, allgenes, scale)

pca(method, name, ncomp, allgenes, scale) ==
    LET st == Pca(norm_data, assays, method, name, ncomp, allgenes, scale)
    IN  /\ norm_data' = st.nd
        /\ assays' = st.assays
        /\ last' = Call("pca", NoArgs, st.err)
        /\ UNCHANGED <<exp_mat, exp_mito, exp_ERCC, low_quality_cells, loaded>>

---------------------------------------------------------------------------
(* dr.tsne and dr.umap.  The embedding itself is computed by an external    *)
(* library, taken here to return: it has one row per row of its input and   *)
(* two columns.                                                             *)

(* X of a target: its rows, or a KeyError when run on a PCA not computed *)
(* the input of an embedding that falls back on the normalized matrix when *)
(* no PCA is stored                                                        *)
EmbedInputOrData(item, run_on_PCA) ==
    IF run_on_PCA /\ "pca" \in DOMAIN item.dr
    THEN [err |-> "none", rows |-> Cardinality(item.dr["pca"].comp.index)]
    ELSE [err |-> "none", rows |-> Cardinality(item.data.index)]

EmbedInput(item, run_on_PCA) ==
    IF ~run_on_PCA
    THEN [err |-> "none", rows |-> Cardinality(item.data.index)]
    ELSE IF "pca" \in DOMAIN item.dr
    THEN [err |-> "none", rows |-> Cardinality(item.dr["pca"].comp.index)]
    ELSE [err |-> "KeyError"]

Embedding(fn, rows, run_on_PCA) ==
    [index |-> RangeIndex(rows), ncol |-> 2,
     of |-> [fn |-> fn, on |-> IF run_on_PCA THEN "pca" ELSE "data"]]

RECURSIVE TsneLoop(_, _, _, _, _, _)
TsneLoop(st, keys, i, run_on_PCA, perplexity, n_iter) ==
    IF i > Len(keys) THEN st
    ELSE LET k == keys[i]
             x == EmbedInput(Item(st.nd, k), run_on_PCA)
         IN  IF x.err # "none" THEN [st EXCEPT !.err = x.err]
             ELSE TsneLoop([st EXCEPT !.nd =
                               PutDr(st.nd, k, "tsne",
                                     [embedding |-> Embedding("TSNE", x.rows, run_on_PCA),
                                      perplexity |-> perplexity,
                                      n_iter |-> n_iter])],
                           keys, i + 1, run_on_PCA, perplexity, n_iter)

Tsne(nd, a, run_on_PCA, name, perplexity, n_iter) ==
    LET t == Targets(nd, name)
        st0 == [nd |-> nd, assays |-> a, err |-> "none"]
        st1 == TsneLoop(st0, t.keys, 1, run_on_PCA, perplexity, n_iter)
    IN  IF NoNormalization(nd)
        THEN [st0 EXCEPT !.err = "Exception: Run normalization first before running tsne"]
        ELSE IF t.err # "none" THEN [st0 EXCEPT !.err = t.err]
        ELSE IF st1.err # "none" THEN st1
        ELSE [st1 EXCEPT !.assays = SetAssay(st1.assays, "tsne", DefaultKey)]

tsne(run_on_PCA, name, perplexity, n_iter) ==
    LET st == Tsne(norm_data, assays, run_on_PCA, name, perplexity, n_iter)
    IN  /\ norm_data' = st.nd
        /\ assays' = st.assays
        /\ last' = Call("tsne", NoArgs, st.err)
        /\ UNCHANGED <<exp_mat, exp_mito, exp_ERCC, low_quality_cells, loaded>>

RECURSIVE UmapLoop(_, _, _, _)
UmapLoop(st, keys, i, run_on_PCA) ==
    IF i > Len(keys) THEN st
    ELSE LET k == keys[i]
             x == EmbedInput(Item(st.nd, k), run_on_PCA)
         IN  IF x.err # "none" THEN [st EXCEPT !.err = x.err]
             ELSE UmapLoop([st EXCEPT !.nd =
                               PutDr(st.nd, k, "umap",
                                     [embedding |-> Embedding("UMAP", x.rows, run_on_PCA)])],
                           keys, i + 1, run_on_PCA)

Umap(nd, a, run_on_PCA, name) ==
    LET t == Targets(nd, name)
        st0 == [nd |-> nd, assays |-> a, err |-> "none"]
        st1 == UmapLoop(st0, t.keys, 1, run_on_PCA)
    IN  IF NoNormalization(nd)
        THEN [st0 EXCEPT !.err = "Exception: Run normalization first before running umap"]
        ELSE IF t.err # "none" THEN [st0 EXCEPT !.err = t.err]
        ELSE IF st1.err # "none" THEN st1
        ELSE [st1 EXCEPT !.assays = SetAssay(st1.assays, "umap", DefaultKey)]

umap(run_on_PCA, name) ==
    LET st == Umap(norm_data, assays, run_on_PCA, name)
    IN  /\ norm_data' = st.nd
        /\ assays' = st.assays
        /\ last' = Call("umap", NoArgs, st.err)
        /\ UNCHANGED <<exp_mat, exp_mito, exp_ERCC, low_quality_cells, loaded>>

---------------------------------------------------------------------------
(* The dataset after loading a gene-by-cell count matrix *)

LoadedMatrices ==
    UNION {{Frame(GeneIds, 1..n, v) : v \in [GeneIds \X (1..n) -> Counts]}
              : n \in 1..MaxCells}

Init ==
    /\ exp_mat \in LoadedMatrices
    /\ \E unset \in {None, Some(EmptyFrame)} :
          /\ exp_mito = unset
          /\ exp_ERCC = unset
    /\ low_quality_cells = None
    /\ loaded = Labels(exp_mat)
    /\ norm_data = <<>>
    /\ assays = <<>>
    /\ last = Call("load", NoArgs, "none")

Next ==
    \/ \E minreads \in MinReadsArgs, minexpgenes \in MinExpArgs :
          simple_filter(minreads, minexpgenes)
    \/ remove_empty
    \/ \E p \in Patterns : detect_mito(p)
    \/ \E p \in Patterns : detect_ERCC_spikes(p)
    \/ \E rRNA_genes \in RRNAArgs : auto_clean(rRNA_genes, DefaultSdThres, DefaultSeed)

Spec == Init /\ [][Next]_vars

(* The reduction stage, on a loaded count matrix of MaxCells cells: every   *)
(* odd cell expresses every gene.                                           *)
ReductionMatrices ==
    {Frame(GeneIds, CellIds, [p \in GeneIds \X CellIds |-> p[2] % 2])}

InitDR ==
    /\ exp_mat \in ReductionMatrices
    /\ exp_mito = None
    /\ exp_ERCC = None
    /\ low_quality_cells = None
    /\ loaded = Labels(exp_mat)
    /\ norm_data = <<>>
    /\ assays = <<>>
    /\ last = Call("load", NoArgs, "none")

NextDR ==
    \/ \E name \in NormNames, hvg \in HvgChoices(exp_mat.index) : norm(name, hvg)
    \/ \E method \in MethodArgs, name \in NameArgs, ncomp \in NcompArgs,
          allgenes \in BOOLEAN, scale \in BOOLEAN :
          pca(method, name, ncomp, allgenes, scale)

SpecDR == InitDR /\ [][NextDR]_vars

(* The embeddings, on normalizations whose highly variable genes are all    *)
(* the genes and after PCAs of one component.                               *)
NextEmb ==
    \/ \E name \in NormNames : norm(name, exp_mat.index)
    \/ \E method \in MethodArgs, name \in NameArgs, scale \in BOOLEAN :
          pca(method, name, 1, TRUE, scale)
    \/ \E run_on_PCA \in BOOLEAN, name \in NameArgs :
          tsne(run_on_PCA, name, DefaultPerplexity, DefaultNIter)
    \/ \E run_on_PCA \in BOOLEAN, name \in NameArgs : umap(run_on_PCA, name)

SpecEmb == InitDR /\ [][NextEmb]_vars

---------------------------------------------------------------------------
(* Properties *)

IsCall(op) == last.op = op

Returned == last.err = "none"

(* the genes of a frame the dataset may not hold *)
GenesOf(opt) == IF opt = None THEN {} ELSE opt[1].index

EmptyColumn(m, c) == \A g \in m.index : m.values[<<g, c>>] = 0

EmptyRow(m, g) == \A c \in m.columns : m.values[<<g, c>>] = 0

(* C1: after remove_empty the expression matrix has no column whose entries *)
(* are all zero and no row whose entries are all zero.                      *)
C1_RemoveEmptyLeavesNone ==
    IsCall("remove_empty") =>
        /\ \A c \in exp_mat.columns : ~EmptyColumn(exp_mat, c)
        /\ \A g \in exp_mat.index : ~EmptyRow(exp_mat, g)

(* C2: simple_filter with minreads = 0 keeps every cell: the cells of the   *)
(* expression matrix after the call are those before it.                    *)
C2_MinReadsZeroKeepsCells ==
    [][(/\ last'.op = "simple_filter"
        /\ last'.err = "none"
        /\ last'.args.minreads = 0) => exp_mat'.columns = exp_mat.columns]_vars

(* the number of the cells of cols that express gene g in m *)
ExpressedIn(m, g, cols) == Cardinality({c \in cols : m.values[<<g, c>>] > 0})

Partitions(before, remainder, extracted) ==
    /\ remainder.index \cap GenesOf(extracted) = {}
    /\ remainder.index \cup GenesOf(extracted) = before.index

(* C4: after detect_mito (detect_ERCC_spikes) the genes of the expression   *)
(* matrix and of exp_mito (exp_ERCC) are disjoint and together are the      *)
(* genes of the expression matrix before the call.                          *)
C4_SplitPartitionsGenes ==
    [][/\ last'.op = "detect_mito" => Partitions(exp_mat, exp_mat', exp_mito')
       /\ last'.op = "detect_ERCC_spikes" => Partitions(exp_mat, exp_mat', exp_ERCC')]_vars

NotSeparated(opt) == opt = None \/ opt[1].index = {}

ConfigurationErrors ==
    {"Exception: auto_clean() needs ERCC spikes",
     "Exception: No mitochondrial genes found. Run detect_mito() first."}

(* C5: when exp_mito or exp_ERCC has not been separated, auto_clean raises  *)
(* its configuration error before computing any metric and without setting *)
(* low_quality_cells.                                                       *)
C5_AutoCleanRequiresSeparation ==
    (IsCall("auto_clean") /\ (NotSeparated(exp_mito) \/ NotSeparated(exp_ERCC)))
        => /\ last.err \in ConfigurationErrors
           /\ last.metrics = {}
           /\ low_quality_cells = None

PrerequisiteError(op) ==
    IF op = "pca" THEN "Exception: Run normalization first before running pca"
    ELSE IF op = "tsne" THEN "Exception: Run normalization first before running tsne"
    ELSE "Exception: Run normalization first before running umap"

(* C6: pca, tsne and umap on a dataset without normalization raise the      *)
(* error naming the normalization step and change neither norm_data nor    *)
(* the processing history.                                                  *)
C6_ReductionRequiresNormalization ==
    [][(norm_data = <<>> /\ last'.op \in {"pca", "tsne", "umap"})
          => /\ last'.err = PrerequisiteError(last'.op)
             /\ norm_data' = norm_data
             /\ assays' = assays]_vars

C6_Witness ==
    /\ IsCall("umap")
    /\ last.err = PrerequisiteError("umap")
    /\ norm_data = <<>>
    /\ assays = <<>>

Strategies == {"irlb", "svd"}

(* C7: for each target, pca with scale hands the standardized matrix to the *)
(* strategy, and the unscaled one without.                                  *)
C7_ScaledMatrixIsReduced ==
    \A i \in 1..Len(norm_data), method \in Strategies, ncomp \in NcompArgs,
       allgenes \in BOOLEAN, scale \in BOOLEAN :
        LET r == PcaOfItem(norm_data[i], method, ncomp, allgenes, scale)
            data == PcaData(norm_data[i], allgenes)
        IN  r.err = "none"
                => r.comp.of.input = IF scale THEN Standardize(data) ELSE ToReal(data)

(* C8: pca with ncomp greater than min(n_genes, n_cells) of the matrix it   *)
(* reduces raises, for both strategies: no stored dr.pca result comes from  *)
(* such a request, and none has fewer columns than were requested.          *)
C8_TooManyComponentsFails ==
    \A i \in 1..Len(norm_data) :
        "pca" \in DOMAIN norm_data[i].dr
            => LET r == norm_data[i].dr["pca"]
                   inp == r.comp.of.input
               IN  /\ r.comp.of.ncomp
                          <= Min(Cardinality(inp.index), Cardinality(inp.columns))
                   /\ r.comp.ncol = r.comp.of.ncomp
                   /\ r.contr.ncol = r.contr.of.ncomp

(* C9: pca with a method other than irlb and svd raises and changes neither *)
(* a dr slot nor the processing history, whatever the normalizations and    *)
(* the target selection.                                                    *)
C9_UnknownMethodHasNoEffect ==
    \A method \in MethodArgs \ Strategies, name \in NameArgs, ncomp \in NcompArgs,
       allgenes \in BOOLEAN, scale \in BOOLEAN :
        LET st == Pca(norm_data, assays, method, name, ncomp, allgenes, scale)
        IN  st.err # "none" /\ st.nd = norm_data /\ st.assays = assays

(* pca has raised on an unknown method, on two normalizations, one of which *)
(* holds an earlier PCA                                                     *)
C9_Witness ==
    /\ IsCall("pca")
    /\ last.err = "Exception: Unkown PCA method spefified"
    /\ Len(norm_data) = 2
    /\ \E i \in 1..2 : "pca" \in DOMAIN norm_data[i].dr

(* the PCA slot is the result of this call *)
WrittenBy(entry, method, ncomp) ==
    /\ "pca" \in DOMAIN entry.dr
    /\ entry.dr["pca"].method = method
    /\ entry.dr["pca"].comp.of.ncomp = ncomp
    /\ entry.dr["pca"].contr.of.ncomp = ncomp

(* C10: a pca call that returns, given a name, writes the dr.pca slot of    *)
(* that normalization alone and, given no name, that of every one; it       *)
(* changes no other slot and no data matrix.                                *)
C10_WritesTheTargetsOnly ==
    \A method \in Strategies, name \in NameArgs, ncomp \in NcompArgs,
       allgenes \in BOOLEAN, scale \in BOOLEAN :
        LET st == Pca(norm_data, assays, method, name, ncomp, allgenes, scale)
            target(e) == name \in {NoName, ""} \/ e.name = name
        IN  st.err = "none"
                => /\ Len(st.nd) = Len(norm_data)
                   /\ \A i \in 1..Len(norm_data) :
                         /\ st.nd[i].name = norm_data[i].name
                         /\ st.nd[i].data = norm_data[i].data
                         /\ st.nd[i].hvg = norm_data[i].hvg
                         /\ IF target(norm_data[i])
                            THEN /\ WrittenBy(st.nd[i], method, ncomp)
                                 /\ \A slot \in DOMAIN norm_data[i].dr \ {"pca"} :
                                       /\ slot \in DOMAIN st.nd[i].dr
                                       /\ st.nd[i].dr[slot] = norm_data[i].dr[slot]
                            ELSE st.nd[i] = norm_data[i]

(* pca has returned, having written the slot of the first of two            *)
(* normalizations and not that of the second                                *)
C10_Witness ==
    /\ IsCall("pca")
    /\ Returned
    /\ Len(norm_data) = 2
    /\ "pca" \in DOMAIN norm_data[1].dr
    /\ "pca" \notin DOMAIN norm_data[2].dr

(* opt holds the mitochondrial genes of the loaded matrix *)
MitoSeparated(opt) ==
    /\ ~NotSeparated(opt)
    /\ GenesOf(opt) = MitoGenes(loaded, MitoPattern)

(* detect_ERCC_spikes has just taken the spikes of the loaded matrix out   *)
(* of m                                                                     *)
SpikesTakenOut(m) ==
    /\ IsCall("detect_ERCC_spikes")
    /\ last.args.pattern = ERCCPattern
    /\ ERCCGenes(loaded, ERCCPattern) # {}
    /\ ERCCGenes(m, ERCCPattern) = {}

(* C11: auto_clean, run once detect_mito has separated the mitochondrial    *)
(* genes and detect_ERCC_spikes the spikes, returns with the flagged cells  *)
(* stored in low_quality_cells, every one of them a cell of exp_mat, and    *)
(* leaves exp_mat, exp_mito and exp_ERCC as they were.                      *)
C11_AutoCleanStoresFlaggedCells ==
    [][(/\ last'.op = "auto_clean"
        /\ MitoSeparated(exp_mito)
        /\ SpikesTakenOut(exp_mat))
          => /\ last'.err = "none"
             /\ exp_mat' = exp_mat
             /\ exp_mito' = exp_mito
             /\ exp_ERCC' = exp_ERCC
             /\ low_quality_cells' # None
             /\ low_quality_cells'[1] \subseteq exp_mat.columns]_vars

(* the names a call on `name` works on, as a set *)
TargetNames(nd, name) ==
    LET t == Targets(nd, name)
    IN  IF t.err = "none" THEN {t.keys[i] : i \in 1..Len(t.keys)} ELSE {}

C13_GenesAndCellsNeverGrow ==
    [][/\ exp_mat'.index \subseteq exp_mat.index
       /\ exp_mat'.columns \subseteq exp_mat.columns
       /\ exp_mat'.index \subseteq loaded.index
       /\ exp_mat'.columns \subseteq loaded.columns]_vars

(* the spikes were split off last, after the mitochondrial genes and after *)
(* a filter that dropped a cell: one gene and fewer cells are left         *)
C13_Witness ==
    /\ IsCall("detect_ERCC_spikes")
    /\ GenesOf(exp_mito) = {mtCo1}
    /\ exp_mat.index = {Actb}
    /\ exp_mat.columns # {}
    /\ exp_mat.columns # loaded.columns
    /\ loaded.index = GeneIds

(* no gene identifier of m matches the pattern *)
NoMatch(m, pat, ignorecase) == \A g \in m.index : ~Contains(pat, g, ignorecase)

(* a split leaves in opt what it held, or nothing: it has extracted no gene *)
ExtractsNothing(before, after) == after = before \/ GenesOf(after) = {}

C15_IndexedByCellAndGene ==
    \A i \in 1..Len(norm_data) :
        "pca" \in DOMAIN norm_data[i].dr
            => LET r == norm_data[i].dr["pca"]
                   inp == r.comp.of.input
                   k == r.comp.of.ncomp
               IN  (/\ r.method \in Strategies
                    /\ k <= Min(Cardinality(inp.index), Cardinality(inp.columns)))
                      => /\ r.comp.index = inp.columns
                         /\ r.comp.ncol = k
                         /\ r.contr.index = inp.index
                         /\ r.contr.ncol = k

HasPca(item) == "pca" \in DOMAIN item.dr

(* the first normalization, in the order of norm_data, without a dr.pca *)
FirstWithoutPca(nd) ==
    CHOOSE i \in 1..Len(nd) :
        ~HasPca(nd[i]) /\ \A j \in 1..(i - 1) : HasPca(nd[j])

PerplexityArgs == {DefaultPerplexity, DefaultPerplexity + 1}

(* C16: when some normalization has no stored dr.pca, tsne and umap with    *)
(* run_on_PCA on all normalizations raise and leave the history as it was,  *)
(* yet the dr.tsne (dr.umap) slot of every normalization before the first   *)
(* one without a dr.pca holds the embedding of this call; that one and the  *)
(* later ones are untouched.                                                *)
C16_EmbeddingFailsHalfWay ==
    (\E i \in 1..Len(norm_data) : ~HasPca(norm_data[i]))
        => \A name \in {NoName, ""}, perplexity \in PerplexityArgs :
              LET f == FirstWithoutPca(norm_data)
                  ts == Tsne(norm_data, assays, TRUE, name, perplexity, DefaultNIter)
                  um == Umap(norm_data, assays, TRUE, name)
              IN  /\ ts.err # "none" /\ um.err # "none"
                  /\ ts.assays = assays /\ um.assays = assays
                  /\ \A j \in 1..(f - 1) :
                        /\ "tsne" \in DOMAIN ts.nd[j].dr
                        /\ ts.nd[j].dr["tsne"].perplexity = perplexity
                        /\ ts.nd[j].dr["tsne"].embedding.of
                              = [fn |-> "TSNE", on |-> "pca"]
                        /\ "umap" \in DOMAIN um.nd[j].dr
                        /\ um.nd[j].dr["umap"].embedding.of
                              = [fn |-> "UMAP", on |-> "pca"]
                  /\ \A j \in f..Len(norm_data) :
                        ts.nd[j] = norm_data[j] /\ um.nd[j] = norm_data[j]

(* a tsne on PCA has raised on two normalizations of which the second has  *)
(* no PCA: the first holds a tsne embedding of its components, though no    *)
(* tsne step was ever recorded                                              *)
C16_Witness ==
    /\ IsCall("tsne") /\ last.err = "KeyError"
    /\ Len(norm_data) = 2
    /\ HasPca(norm_data[1])
    /\ "tsne" \in DOMAIN norm_data[1].dr
    /\ norm_data[1].dr["tsne"].embedding.of.on = "pca"
    /\ ~HasPca(norm_data[2])
    /\ DOMAIN norm_data[2].dr = {}
    /\ "tsne" \notin DOMAIN assays

====
